---- MODULE Spec2Model ----
(***************************************************************************)
(* The three administration scripts of NotebookAI                          *)
(*   scripts/setup-supabase-sql.py   provisioning over a direct connection *)
(*   scripts/setup-supabase.py       provisioning over the REST endpoint   *)
(*   scripts/cleanup-supabase.py     purge of every table except users     *)
(* run one after the other against one PostgreSQL database.  The database  *)
(* is modelled by what the scripts' SQL reads and writes: which tables,    *)
(* foreign keys and indexes exist, and the rows' keys and references.      *)
(* Text read from the terminal is a sequence of one-character strings.     *)
(***************************************************************************)
EXTENDS Integers, Sequences, FiniteSets, TLC

VARIABLES
    db,                 \* the database: [ext, tables, fkeys, indexes, rows]
    db0,                \* the database as it was when the current run started
    prevOK,             \* the run before the current one was a provisioning run that exited 0
    script,             \* which script the current run executes
    pc,                 \* the run's position in main()
    exitCode,           \* the process's exit status, NoExit while it runs
    error,              \* how the run ended: "success", "cancelled", or what failed
    inp,                \* the values get_user_input returned so far
    conn_params,        \* main()'s conn_params: a DSN string, a dict, or None
    conn,               \* the connection handle: "none", "open", "closed"
    connectCalls,       \* calls of psycopg2.connect made by the run
    connTarget,         \* the target libpq was asked to reach, None before
    existing_tables,    \* cleanup's existing_tables (ORDER BY table_name)
    idx,                \* cleanup's position in CLEANUP_QUERIES
    sqlLog,             \* the statements the run has executed, in order
    httpRequests        \* urlopen calls made by the run

vars == <<db, db0, prevOK, script, pc, exitCode, error, inp, conn_params, conn,
          connectCalls, connTarget, existing_tables, idx, sqlLog, httpRequests>>

\* Rows of application data per table in the initial databases, beyond the seeds.
MaxRows == 1

NoExit == -1
None == [kind |-> "None"]

(***************************************************************************)
(* Text.                                                                   *)
(***************************************************************************)
IsSpace(c) == c \in {" ", "\t"}

RECURSIVE LStrip(_)
LStrip(s) == IF s # <<>> /\ IsSpace(Head(s)) THEN LStrip(Tail(s)) ELSE s

RECURSIVE RStrip(_)
RStrip(s) ==
    IF s # <<>> /\ IsSpace(s[Len(s)]) THEN RStrip(SubSeq(s, 1, Len(s) - 1)) ELSE s

\* str.strip()
Strip(s) == RStrip(LStrip(s))

LowerChar(c) ==
    CASE c = "Y" -> "y" [] c = "E" -> "e" [] c = "S" -> "s"
      [] c = "N" -> "n" [] c = "O" -> "o" [] OTHER -> c

\* str.lower()
Lower(s) == [i \in 1..Len(s) |-> LowerChar(s[i])]

\* s[i..] starts with the literal lit
StartsWithAt(s, i, lit) ==
    /\ i + Len(lit) - 1 <= Len(s)
    /\ \A k \in 1..Len(lit) : s[i + k - 1] = lit[k]

\* The first position >= i of s holding c, Len(s) + 1 when there is none.
RECURSIVE FindFrom(_, _, _)
FindFrom(s, i, c) ==
    IF i > Len(s) THEN Len(s) + 1
    ELSE IF s[i] = c THEN i ELSE FindFrom(s, i + 1, c)

HttpsPrefix == <<"h", "t", "t", "p", "s", ":", "/", "/">>
HttpPrefix == <<"h", "t", "t", "p", ":", "/", "/">>
SupabaseSuffix == <<".", "s", "u", "p", "a", "b", "a", "s", "e", ".", "c", "o">>

(***************************************************************************)
(* setup-supabase.py: re.match(r'https://([^.]+)\.supabase\.co', url).      *)
(* re.match anchors the pattern at the start of the text only.  The group  *)
(* [^.]+ cannot hold a dot and is followed by a literal dot, so it runs    *)
(* from the ninth character to the first dot after it.                     *)
(***************************************************************************)
RefEnd(s) == FindFrom(s, Len(HttpsPrefix) + 1, ".")

ReMatch(s) ==
    /\ StartsWithAt(s, 1, HttpsPrefix)
    /\ RefEnd(s) > Len(HttpsPrefix) + 1
    /\ StartsWithAt(s, RefEnd(s), SupabaseSuffix)

(***************************************************************************)
(* The database.                                                           *)
(***************************************************************************)
Tables ==
    {"users", "notebooks", "documents", "document_vectors", "chat_history",
     "notes", "sessions"}

\* The order of the CREATE TABLE statements of SCHEMA_SQL.
TableOrder ==
    <<"users", "notebooks", "documents", "document_vectors", "chat_history",
      "notes", "sessions">>

\* child table -> the table its REFERENCES ... ON DELETE CASCADE column names
Parent ==
    [notebooks |-> "users", documents |-> "notebooks",
     document_vectors |-> "documents", chat_history |-> "notebooks",
     notes |-> "notebooks"]

ChildTables == DOMAIN Parent

ChildrenOf(t) == {c \in ChildTables : Parent[c] = t}

\* index -> the table it is created on
IndexTable ==
    [idx_notebooks_user_id |-> "notebooks",
     idx_documents_notebook_id |-> "documents",
     idx_document_vectors_document_id |-> "document_vectors",
     idx_chat_history_notebook_id |-> "chat_history",
     idx_notes_notebook_id |-> "notes",
     idx_sessions_expire |-> "sessions",
     idx_document_vectors_embedding |-> "document_vectors"]

Indexes == DOMAIN IndexTable

\* A row: its primary key, the key its foreign-key column holds, its email
\* (users only; the one UNIQUE column of the schema besides the keys).
NoRef == <<"-", 0>>
Row(id, ref, email) == [id |-> id, ref |-> ref, email |-> email]

SeedUser == Row(<<"default-user", 0>>, NoRef, <<"demo@notebookai.com", 0>>)
SeedNotebook == Row(<<"sample-notebook-1", 0>>, <<"default-user", 0>>, NoRef)
SeedNote == Row(<<"sample-note-1", 0>>, <<"sample-notebook-1", 0>>, NoRef)

Stmt(op, table, name, row) == [op |-> op, table |-> table, name |-> name, row |-> row]

CreateTableStmts == [i \in 1..Len(TableOrder) |-> Stmt("create_table", TableOrder[i], "-", SeedUser)]

IndexOrder ==
    <<"idx_notebooks_user_id", "idx_documents_notebook_id",
      "idx_document_vectors_document_id", "idx_chat_history_notebook_id",
      "idx_notes_notebook_id", "idx_sessions_expire",
      "idx_document_vectors_embedding">>

CreateIndexStmts ==
    [i \in 1..Len(IndexOrder) |->
        Stmt("create_index", IndexTable[IndexOrder[i]], IndexOrder[i], SeedUser)]

SeedInsertStmts ==
    <<Stmt("insert", "users", "-", SeedUser),
      Stmt("insert", "notebooks", "-", SeedNotebook),
      Stmt("insert", "notes", "-", SeedNote)>>

\* The script both provisioning scripts send.
SCHEMA_SQL ==
    <<Stmt("extension", "-", "vector", SeedUser)>>
        \o CreateTableStmts \o CreateIndexStmts \o SeedInsertStmts

Ok(d) == [ok |-> TRUE, db |-> d]
Fail(d) == [ok |-> FALSE, db |-> d]

\* CREATE EXTENSION IF NOT EXISTS vector
CreateExtension(d) == Ok([d EXCEPT !.ext = TRUE])

\* The CREATE TABLE statements with their REFERENCES clauses left out.
CreateTableWithoutReferences(d, t) ==
    IF t \in d.tables THEN Ok(d) ELSE Ok([d EXCEPT !.tables = @ \cup {t}])

\* CREATE TABLE IF NOT EXISTS t (... REFERENCES parent(id) ON DELETE CASCADE ...)
CreateTableIfNotExists(d, t) ==
    IF t \in d.tables THEN Ok(d)
    ELSE IF t \in ChildTables /\ Parent[t] \notin d.tables THEN Fail(d)
    ELSE Ok([d EXCEPT !.tables = @ \cup {t},
                      !.fkeys = @ \cup ({t} \cap ChildTables)])

\* CREATE INDEX IF NOT EXISTS i ON t (...)
CreateIndexIfNotExists(d, i, t) ==
    IF i \in d.indexes THEN Ok(d)
    ELSE IF t \notin d.tables THEN Fail(d)
    ELSE Ok([d EXCEPT !.indexes = @ \cup {i}])

\* What a plain INSERT checks: the primary key, the UNIQUE email, the foreign key.
InsertRow(d, t, r) ==
    IF t \notin d.tables THEN Fail(d)
    ELSE IF \E x \in d.rows[t] : x.id = r.id THEN Fail(d)
    ELSE IF t = "users" /\ \E x \in d.rows[t] : x.email = r.email THEN Fail(d)
    ELSE IF t \in d.fkeys /\ ~ \E p \in d.rows[Parent[t]] : p.id = r.ref THEN Fail(d)
    ELSE Ok([d EXCEPT !.rows[t] = @ \cup {r}])

\* The INSERT without its ON CONFLICT clause.
InsertWithoutOnConflict(d, t, r) == InsertRow(d, t, r)

\* INSERT INTO t ... VALUES r ON CONFLICT (id) DO NOTHING
InsertOnConflictDoNothing(d, t, r) ==
    IF t \in d.tables /\ \E x \in d.rows[t] : x.id = r.id THEN Ok(d)
    ELSE InsertRow(d, t, r)

ApplyStmt(d, st) ==
    CASE st.op = "extension" -> CreateExtension(d)
      [] st.op = "create_table" -> CreateTableIfNotExists(d, st.table)
      [] st.op = "create_index" -> CreateIndexIfNotExists(d, st.name, st.table)
      [] st.op = "insert" -> InsertOnConflictDoNothing(d, st.table, st.row)

RECURSIVE RunStmts(_, _)
RunStmts(d, stmts) ==
    IF stmts = <<>> THEN Ok(d)
    ELSE LET r == ApplyStmt(d, Head(stmts))
         IN IF r.ok THEN RunStmts(r.db, Tail(stmts)) ELSE r

\* cursor.execute(SCHEMA_SQL), and exec_sql on the server: the statements of
\* one query string run in one transaction, so an error undoes them all.
ExecSchema(d) ==
    LET r == RunStmts(d, SCHEMA_SQL) IN IF r.ok THEN r ELSE Fail(d)

\* DELETE FROM t, restricted to the rows gone, with the ON DELETE CASCADE of
\* the foreign keys in force.
RECURSIVE DeleteRows(_, _, _, _)
RECURSIVE CascadeInto(_, _, _, _)
DeleteRows(rows, fk, t, gone) ==
    CascadeInto([rows EXCEPT ![t] = @ \ gone], fk,
                SelectSeq(TableOrder, LAMBDA c : c \in ChildrenOf(t) \cap fk),
                {r.id : r \in gone})

CascadeInto(rows, fk, cs, ids) ==
    IF cs = <<>> THEN rows
    ELSE CascadeInto(
            DeleteRows(rows, fk, Head(cs), {r \in rows[Head(cs)] : r.ref \in ids}),
            fk, Tail(cs), ids)

\* DELETE FROM t;
DeleteFrom(d, t) == [d EXCEPT !.rows = DeleteRows(d.rows, d.fkeys, t, d.rows[t])]

(***************************************************************************)
(* The databases a run may find.  Any set of the seven tables may exist;   *)
(* a foreign key is in force where child and parent both exist.  The rows  *)
(* are the seeds, application rows 1..n, both, or neither; in "taken" the  *)
(* seed user's email belongs to another user, in "renamed" the seed user   *)
(* has another email.                                                      *)
(***************************************************************************)
AppRows(t, n) ==
    {Row(<<t, i>>, IF t \in ChildTables THEN <<Parent[t], i>> ELSE NoRef,
         IF t = "users" THEN <<"mail", i>> ELSE NoRef) : i \in 1..n}

SeedRows(t) ==
    CASE t = "users" -> {SeedUser}
      [] t = "notebooks" -> {SeedNotebook}
      [] t = "notes" -> {SeedNote}
      [] OTHER -> {}

Population(kind, n) ==
    [t \in Tables |->
        CASE kind = "seed" -> SeedRows(t) \cup AppRows(t, n)
          [] kind = "app" -> AppRows(t, n)
          [] kind = "taken" ->
                IF t = "users"
                THEN {Row(<<t, i>>, NoRef, IF i = 1 THEN SeedUser.email ELSE <<"mail", i>>) :
                        i \in 1..n}
                ELSE AppRows(t, n)
          [] kind = "renamed" ->
                IF t = "users"
                THEN {Row(SeedUser.id, NoRef, <<"mail", 0>>)} \cup AppRows(t, n)
                ELSE SeedRows(t) \cup AppRows(t, n)]

\* "app" databases were laid out by the application and carry no index.
MakeDb(ts, kind, n) ==
    [ext |-> "document_vectors" \in ts,
     tables |-> ts,
     fkeys |-> {c \in ChildTables \cap ts : Parent[c] \in ts},
     indexes |-> IF kind = "app" THEN {} ELSE {i \in Indexes : IndexTable[i] \in ts},
     rows |-> [t \in Tables |-> IF t \in ts THEN Population(kind, n)[t] ELSE {}]]

InitialDatabases ==
    {MakeDb(ts, "app", n) : ts \in SUBSET Tables, n \in 0..MaxRows}
        \cup {MakeDb(ts, "seed", n) : ts \in SUBSET Tables, n \in 0..MaxRows}
        \cup {MakeDb(ts, "taken", n) : ts \in SUBSET Tables, n \in 1..MaxRows}
        \cup {MakeDb(ts, "renamed", MaxRows) : ts \in SUBSET Tables}

(***************************************************************************)
(* What the user may type at the prompts.                                  *)
(***************************************************************************)
Unread == <<"<unread>">>

Answers ==
    {<<"y", "e", "s">>, <<"y">>, <<" ", "Y", "E", "S">>, <<"n", "o">>, <<"N">>,
     <<"m", "a", "y", "b", "e">>, <<>>}

Dsn == <<"p", "g", ":", "/", "/", "h", "/", "d">>
DsnInputs == {<<>>, <<" ">>, Dsn, Dsn \o <<" ">>}
HostInputs == {<<"h">>, <<" ", "h", " ">>}
PortInputs == {<<>>, <<"6", "5", "4", "3">>}
DatabaseInputs == {<<>>, <<"d">>}
UserInputs == {<<>>, <<"u">>}
PasswordInputs == {<<>>, <<" ">>, <<"p", "w">>}
KeyInputs == {<<>>, <<"k">>}

Ref == <<"a", "b">>
UrlInputs ==
    {<<>>,
     HttpsPrefix \o Ref \o SupabaseSuffix,
     HttpsPrefix \o Ref \o SupabaseSuffix \o <<"m">>,
     HttpsPrefix \o Ref \o SupabaseSuffix \o <<".", "e", "v", ".", "i", "o">>,
     HttpPrefix \o Ref \o SupabaseSuffix,
     HttpsPrefix \o SupabaseSuffix,
     HttpsPrefix \o Ref \o <<".", "x">> \o SupabaseSuffix,
     Ref \o SupabaseSuffix}

DefaultPort == <<"5", "4", "3", "2">>
DefaultName == <<"p", "o", "s", "t", "g", "r", "e", "s">>

NoInput ==
    [response |-> Unread, database_url |-> Unread, host |-> Unread, port |-> Unread,
     database |-> Unread, user |-> Unread, password |-> Unread,
     supabase_url |-> Unread, supabase_service_key |-> Unread]

Scripts == {"setup_sql", "setup_rest", "cleanup"}
Provisioners == {"setup_sql", "setup_rest"}

\* The list with the sessions DELETE forgotten.
QueriesWithoutSessions ==
    <<"chat_history", "notes", "document_vectors", "documents", "notebooks">>

\* The list with the referenced tables first.
QueriesRootFirst ==
    <<"notebooks", "documents", "document_vectors", "chat_history", "notes", "sessions">>

\* The six tables of CLEANUP_QUERIES, in its order.
CLEANUP_QUERIES ==
    <<"chat_history", "notes", "document_vectors", "documents", "notebooks", "sessions">>

\* ... WHERE table_name IN (...) ORDER BY table_name
TableNameOrder ==
    <<"chat_history", "document_vectors", "documents", "notebooks", "notes", "sessions">>

Range(s) == {s[i] : i \in 1..Len(s)}

FirstPc(s) ==
    CASE s = "cleanup" -> "confirm"
      [] s = "setup_sql" -> "database_url"
      [] s = "setup_rest" -> "supabase_url"

PromptPcs ==
    {"confirm", "database_url", "host", "port", "database", "user", "password",
     "supabase_url", "service_key", "anon_key", "rest_database_url"}

Init ==
    /\ db \in InitialDatabases
    /\ db0 = db
    /\ prevOK = FALSE
    /\ script = "none"
    /\ pc = "idle"
    /\ exitCode = NoExit
    /\ error = "none"
    /\ inp = NoInput
    /\ conn_params = None
    /\ conn = "none"
    /\ connectCalls = 0
    /\ connTarget = None
    /\ existing_tables = <<>>
    /\ idx = 0
    /\ sqlLog = <<>>
    /\ httpRequests = 0

\* The operator starts a script: the first run, or the next one after a run ended.
StartRun ==
    /\ pc \in {"idle", "done"}
    /\ \E s \in Scripts :
        /\ script' = s
        /\ pc' = FirstPc(s)
    /\ prevOK' = (pc = "done" /\ script \in Provisioners /\ error = "success")
    /\ db0' = db
    /\ exitCode' = NoExit
    /\ error' = "none"
    /\ inp' = NoInput
    /\ conn_params' = None
    /\ conn' = "none"
    /\ connectCalls' = 0
    /\ connTarget' = None
    /\ existing_tables' = <<>>
    /\ idx' = 0
    /\ sqlLog' = <<>>
    /\ httpRequests' = 0
    /\ UNCHANGED db

\* sys.exit(code), or main() returning (code 0): the process ends.
Exit(code, how) ==
    /\ pc' = "done"
    /\ exitCode' = code
    /\ error' = how

\* get_user_input: KeyboardInterrupt at input() -> "cancelled by user", sys.exit(0).
\* SystemExit is no Exception, so main()'s handlers let it through.
KeyboardInterruptAtPrompt ==
    /\ pc \in PromptPcs
    /\ Exit(0, "cancelled")
    /\ UNCHANGED <<db, db0, prevOK, script, inp, conn_params, conn, connectCalls,
                   connTarget, existing_tables, idx, sqlLog, httpRequests>>

(***************************************************************************)
(* cleanup-supabase.py: the confirmation, before main()'s try block.       *)
(***************************************************************************)
\* Enter alone taken for a yes.
AffirmativeOrEmpty == {<<"y", "e", "s">>, <<"y">>, <<>>}

\* response in ['yes', 'y'], response in ['no', 'n']
Affirmative == {<<"y", "e", "s">>, <<"y">>}
Negative == {<<"n", "o">>, <<"n">>}

\* get_confirmation: one turn of its loop, and main()'s test of the result.
GetConfirmation ==
    /\ script = "cleanup"
    /\ pc = "confirm"
    /\ \E raw \in Answers :
        LET response == Lower(Strip(raw)) IN
        /\ inp' = [inp EXCEPT !.response = response]
        /\ IF response \in Affirmative
           THEN pc' = "database_url" /\ UNCHANGED <<exitCode, error>>
           ELSE IF response \in Negative
           THEN Exit(0, "cancelled")
           ELSE UNCHANGED <<pc, exitCode, error>>
    /\ UNCHANGED <<db, db0, prevOK, script, conn_params, conn, connectCalls,
                   connTarget, existing_tables, idx, sqlLog, httpRequests>>

(***************************************************************************)
(* Connection resolution: the same lines in cleanup-supabase.py (76-99)    *)
(* and setup-supabase-sql.py (141-164).                                    *)
(***************************************************************************)
ResolveFrame ==
    UNCHANGED <<db, db0, prevOK, script, conn, connectCalls, connTarget,
                existing_tables, idx, sqlLog, httpRequests>>

PromptDatabaseUrl ==
    /\ script \in {"cleanup", "setup_sql"}
    /\ pc = "database_url"
    /\ \E raw \in DsnInputs :
        LET database_url == Strip(raw) IN
        /\ inp' = [inp EXCEPT !.database_url = database_url]
        /\ IF database_url # <<>>
           THEN /\ conn_params' = [kind |-> "dsn", dsn |-> database_url]
                /\ pc' = "connect"
           ELSE /\ pc' = "host"
                /\ UNCHANGED conn_params
    /\ UNCHANGED <<exitCode, error>>
    /\ ResolveFrame

PromptHost ==
    /\ pc = "host"
    /\ \E raw \in HostInputs : inp' = [inp EXCEPT !.host = Strip(raw)]
    /\ pc' = "port"
    /\ UNCHANGED <<exitCode, error, conn_params>>
    /\ ResolveFrame

\* get_user_input(...) or default
OrDefault(v, default) == IF v # <<>> THEN v ELSE default

PromptPort ==
    /\ pc = "port"
    /\ \E raw \in PortInputs :
        inp' = [inp EXCEPT !.port = OrDefault(Strip(raw), DefaultPort)]
    /\ pc' = "database"
    /\ UNCHANGED <<exitCode, error, conn_params>>
    /\ ResolveFrame

PromptDatabase ==
    /\ pc = "database"
    /\ \E raw \in DatabaseInputs :
        inp' = [inp EXCEPT !.database = OrDefault(Strip(raw), DefaultName)]
    /\ pc' = "user"
    /\ UNCHANGED <<exitCode, error, conn_params>>
    /\ ResolveFrame

PromptUser ==
    /\ pc = "user"
    /\ \E raw \in UserInputs :
        inp' = [inp EXCEPT !.user = OrDefault(Strip(raw), DefaultName)]
    /\ pc' = "password"
    /\ UNCHANGED <<exitCode, error, conn_params>>
    /\ ResolveFrame

\* the dict main() builds
ConnDict(i) ==
    [kind |-> "dict", host |-> i.host, port |-> i.port, database |-> i.database,
     user |-> i.user, password |-> i.password]

PromptPassword ==
    /\ pc = "password"
    /\ \E raw \in PasswordInputs :
        LET password == Strip(raw) IN
        /\ inp' = [inp EXCEPT !.password = password]
        /\ IF password = <<>>
           THEN Exit(1, "validation") /\ UNCHANGED conn_params
           ELSE /\ conn_params' = ConnDict(inp')
                /\ pc' = "connect"
                /\ UNCHANGED <<exitCode, error>>
    /\ ResolveFrame

(***************************************************************************)
(* conn = psycopg2.connect(conn_params); conn.autocommit = True.           *)
(* connect(dsn=None, connection_factory=None, cursor_factory=None,         *)
(* **kwargs) takes its first positional argument as the DSN.  A str is     *)
(* handed to libpq, which reaches the server or raises OperationalError.   *)
(* The dict of the components path arrives as dsn, not as keywords: the    *)
(* driver's DSN check raises TypeError before libpq is called.             *)
(***************************************************************************)
DriverAccepts(params) == params.kind = "dsn"

AfterConnect(s) == IF s = "cleanup" THEN "select_tables" ELSE "exec_schema"

Connect ==
    /\ pc = "connect"
    /\ connectCalls' = connectCalls + 1
    /\ IF ~ DriverAccepts(conn_params)
       THEN /\ Exit(1, "TypeError")
            /\ UNCHANGED <<conn, connTarget>>
       ELSE /\ connTarget' = conn_params
            /\ \/ /\ conn' = "open"
                  /\ pc' = AfterConnect(script)
                  /\ UNCHANGED <<exitCode, error>>
               \/ /\ Exit(1, "OperationalError")
                  /\ UNCHANGED conn
    /\ UNCHANGED <<db, db0, prevOK, script, inp, conn_params, existing_tables, idx,
                   sqlLog, httpRequests>>

\* cursor.close(); conn.close()
Close == conn' = "closed"

(***************************************************************************)
(* setup-supabase-sql.py after connecting.                                 *)
(***************************************************************************)
SqlFrame ==
    UNCHANGED <<db0, prevOK, script, inp, conn_params, connectCalls, connTarget,
                httpRequests>>

\* cursor.execute(SCHEMA_SQL)
ExecuteSchema ==
    /\ script = "setup_sql"
    /\ pc = "exec_schema"
    /\ sqlLog' = Append(sqlLog, <<"SCRIPT", "SCHEMA_SQL">>)
    /\ \/ LET r == ExecSchema(db) IN
          IF r.ok
          THEN /\ db' = r.db
               /\ pc' = "verify_tables"
               /\ UNCHANGED <<exitCode, error>>
          ELSE /\ Exit(1, "IntegrityError")
               /\ UNCHANGED db
       \/ /\ Exit(1, "OperationalError")
          /\ UNCHANGED db
    /\ UNCHANGED <<conn, existing_tables, idx>>
    /\ SqlFrame

\* The verification SELECT, the "Missing tables" warning, cursor.close(),
\* conn.close(), and main() returning.
VerifyTables ==
    /\ script = "setup_sql"
    /\ pc = "verify_tables"
    /\ sqlLog' = Append(sqlLog, <<"SELECT", "information_schema.tables">>)
    /\ \/ Close /\ Exit(0, "success")
       \/ Exit(1, "OperationalError") /\ UNCHANGED conn
    /\ UNCHANGED <<db, existing_tables, idx>>
    /\ SqlFrame

(***************************************************************************)
(* cleanup-supabase.py after connecting.                                   *)
(***************************************************************************)
SelectCount(t) == <<"SELECT COUNT(*) FROM", t>>

\* The information_schema query, existing_tables, and the early return.
SelectExistingTables ==
    /\ script = "cleanup"
    /\ pc = "select_tables"
    /\ sqlLog' = Append(sqlLog, <<"SELECT", "information_schema.tables">>)
    /\ \/ LET found == SelectSeq(TableNameOrder, LAMBDA t : t \in db.tables) IN
          /\ existing_tables' = found
          /\ IF found = <<>>
             THEN Close /\ Exit(0, "success")
             ELSE pc' = "count_rows" /\ UNCHANGED <<conn, exitCode, error>>
       \/ /\ Exit(1, "OperationalError")
          /\ UNCHANGED <<conn, existing_tables>>
    /\ UNCHANGED <<db, idx>>
    /\ SqlFrame

\* for table in existing_tables: SELECT COUNT(*) FROM {table}  (printed only)
CountRows ==
    /\ script = "cleanup"
    /\ pc = "count_rows"
    /\ \/ /\ sqlLog' = sqlLog \o [i \in 1..Len(existing_tables) |-> SelectCount(existing_tables[i])]
          /\ pc' = "count_users"
          /\ UNCHANGED <<exitCode, error>>
       \/ /\ sqlLog' = Append(sqlLog, SelectCount(existing_tables[1]))
          /\ Exit(1, "OperationalError")
    /\ UNCHANGED <<db, conn, existing_tables, idx>>
    /\ SqlFrame

\* SELECT COUNT(*) FROM users: an error when the table does not exist.
CountUsers ==
    /\ script = "cleanup"
    /\ pc = "count_users"
    /\ sqlLog' = Append(sqlLog, SelectCount("users"))
    /\ \/ IF "users" \in db.tables
          THEN pc' = "delete" /\ idx' = 1 /\ UNCHANGED <<exitCode, error>>
          ELSE Exit(1, "ProgrammingError") /\ UNCHANGED idx
       \/ Exit(1, "OperationalError") /\ UNCHANGED idx
    /\ UNCHANGED <<db, conn, existing_tables>>
    /\ SqlFrame

Delete(t) == <<"DELETE FROM", t>>

\* The existence test left out.
NotChecked(t) == TRUE

\* if table_name in existing_tables
InExisting(t) == t \in Range(existing_tables)

\* The connection left in a transaction: an error undoes the run's statements.
RolledBack(d, d0) == d0

\* conn.autocommit = True: each completed statement is committed on its own,
\* so the database keeps what the run did before a statement raised.
Committed(d, d0) == d

\* One turn of "for query in CLEANUP_QUERIES": the DELETE when the table is
\* in existing_tables, committed at once (autocommit).
CleanupQuery ==
    /\ script = "cleanup"
    /\ pc = "delete"
    /\ LET table_name == CLEANUP_QUERIES[idx]
           next == IF idx = Len(CLEANUP_QUERIES) THEN "verify_cleanup" ELSE "delete"
       IN IF InExisting(table_name)
          THEN /\ sqlLog' = Append(sqlLog, Delete(table_name))
               /\ \/ /\ db' = DeleteFrom(db, table_name)
                     /\ idx' = idx + 1
                     /\ pc' = next
                     /\ UNCHANGED <<exitCode, error>>
                  \/ /\ Exit(1, "OperationalError")
                     /\ db' = Committed(db, db0)
                     /\ UNCHANGED idx
          ELSE /\ idx' = idx + 1
               /\ pc' = next
               /\ UNCHANGED <<db, sqlLog, exitCode, error>>
    /\ UNCHANGED <<conn, existing_tables>>
    /\ SqlFrame

\* The verification counts, cursor.close(), conn.close(), main() returning.
VerifyCleanup ==
    /\ script = "cleanup"
    /\ pc = "verify_cleanup"
    /\ \/ /\ sqlLog' = sqlLog \o [i \in 1..Len(existing_tables) |-> SelectCount(existing_tables[i])]
          /\ Close
          /\ Exit(0, "success")
       \/ /\ sqlLog' = Append(sqlLog, SelectCount(existing_tables[1]))
          /\ Exit(1, "OperationalError")
          /\ UNCHANGED conn
    /\ UNCHANGED <<db, existing_tables, idx>>
    /\ SqlFrame

(***************************************************************************)
(* setup-supabase.py.                                                      *)
(***************************************************************************)
RestFrame ==
    UNCHANGED <<db0, prevOK, script, conn_params, conn, connectCalls, connTarget,
                existing_tables, idx, sqlLog>>

PromptSupabaseUrl ==
    /\ pc = "supabase_url"
    /\ \E raw \in UrlInputs : inp' = [inp EXCEPT !.supabase_url = Strip(raw)]
    /\ pc' = "service_key"
    /\ UNCHANGED <<db, exitCode, error, httpRequests>>
    /\ RestFrame

PromptServiceKey ==
    /\ pc = "service_key"
    /\ \E raw \in KeyInputs : inp' = [inp EXCEPT !.supabase_service_key = Strip(raw)]
    /\ pc' = "anon_key"
    /\ UNCHANGED <<db, exitCode, error, httpRequests>>
    /\ RestFrame

\* SUPABASE_ANON_KEY is read and never used.
PromptAnonKey ==
    /\ pc = "anon_key"
    /\ pc' = "rest_database_url"
    /\ UNCHANGED <<db, exitCode, error, inp, httpRequests>>
    /\ RestFrame

\* DATABASE_URL is read and never used.
PromptRestDatabaseUrl ==
    /\ pc = "rest_database_url"
    /\ pc' = "validate"
    /\ UNCHANGED <<db, exitCode, error, inp, httpRequests>>
    /\ RestFrame

\* The two checks of the credentials and the extraction of project_ref.
Validate ==
    /\ pc = "validate"
    /\ IF inp.supabase_url = <<>> \/ inp.supabase_service_key = <<>>
       THEN Exit(1, "validation")
       ELSE IF ~ ReMatch(inp.supabase_url)
       THEN Exit(1, "validation")
       ELSE pc' = "request" /\ UNCHANGED <<exitCode, error>>
    /\ UNCHANGED <<db, inp, httpRequests>>
    /\ RestFrame

\* A server error taken for success.
SuccessOrServerError == {200, 204, 500}

\* response['status'] in [200, 204]
SuccessStatus == {200, 204}

\* make_request(url, {'sql': SCHEMA_SQL}, headers) and the test of the status.
\* urlopen raises URLError when the host cannot be reached (main()'s except
\* Exception); the server answers 200 or 204 after running the script, and
\* with an error status when it refuses the call or the script fails.
MakeRequest ==
    /\ pc = "request"
    /\ httpRequests' = httpRequests + 1
    /\ \/ Exit(1, "URLError") /\ UNCHANGED db
       \/ \E status \in {401, 404, 500} :
            /\ Exit(IF status \in SuccessStatus THEN 0 ELSE 1, "HTTPError")
            /\ UNCHANGED db
       \/ LET r == ExecSchema(db) IN
          IF r.ok
          THEN \E status \in SuccessStatus :
                /\ db' = r.db
                /\ Exit(IF status \in SuccessStatus THEN 0 ELSE 1, "success")
          ELSE /\ Exit(1, "HTTPError")
               /\ UNCHANGED db
    /\ UNCHANGED inp
    /\ RestFrame

Next ==
    \/ StartRun
    \/ KeyboardInterruptAtPrompt
    \/ GetConfirmation
    \/ PromptDatabaseUrl
    \/ PromptHost
    \/ PromptPort
    \/ PromptDatabase
    \/ PromptUser
    \/ PromptPassword
    \/ Connect
    \/ ExecuteSchema
    \/ VerifyTables
    \/ SelectExistingTables
    \/ CountRows
    \/ CountUsers
    \/ CleanupQuery
    \/ VerifyCleanup
    \/ PromptSupabaseUrl
    \/ PromptServiceKey
    \/ PromptAnonKey
    \/ PromptRestDatabaseUrl
    \/ Validate
    \/ MakeRequest

Spec == Init /\ [][Next]_vars

\* A database nothing has been created in.
EmptyDatabase == MakeDb({}, "app", 0)

\* Before the first run against an empty database.
InitEmpty ==
    /\ db = EmptyDatabase
    /\ db0 = db
    /\ prevOK = FALSE
    /\ script = "none"
    /\ pc = "idle"
    /\ exitCode = NoExit
    /\ error = "none"
    /\ inp = NoInput
    /\ conn_params = None
    /\ conn = "none"
    /\ connectCalls = 0
    /\ connTarget = None
    /\ existing_tables = <<>>
    /\ idx = 0
    /\ sqlLog = <<>>
    /\ httpRequests = 0

\* Any sequence of runs of the three scripts, from an empty database.
SpecEmpty == InitEmpty /\ [][Next]_vars

(***************************************************************************)
(* The properties.                                                         *)
(***************************************************************************)
Done == pc = "done"

IsPrefix(a, b) == Len(a) <= Len(b) /\ SubSeq(b, 1, Len(a)) = a

\* The DELETE statements the run has issued, as table names, in order.
IssuedDeletes ==
    LET dels == SelectSeq(sqlLog, LAMBDA st : st[1] = "DELETE FROM")
    IN [i \in 1..Len(dels) |-> dels[i][2]]

\* The DELETE statements that completed: all but one that raised.
CompletedDeletes ==
    IF Done /\ error = "OperationalError" /\ sqlLog # <<>>
          /\ sqlLog[Len(sqlLog)][1] = "DELETE FROM"
    THEN SubSeq(IssuedDeletes, 1, Len(IssuedDeletes) - 1)
    ELSE IssuedDeletes

SeedCount(t, r) == Cardinality({x \in db.rows[t] : x.id = r.id})

\* The run got an answer from the database, or from the server, that was not a
\* refusal for a reason outside the script's statements.
ScriptDecided == Done /\ error \notin {"cancelled", "validation", "TypeError",
                                       "OperationalError", "URLError", "HTTPError"}

\* C1: a provisioning run that directly follows a provisioning run that
\* succeeded raises no SQL error of its own, succeeds whenever the server is
\* reached and answers, and leaves the database exactly as it found it: the
\* seven tables, the seven indexes, one row for each of the three seeds.
C1_ProvisioningIdempotent ==
    (prevOK /\ script \in Provisioners) =>
        /\ db = db0
        /\ error # "IntegrityError"
        /\ ScriptDecided => (error = "success" /\ exitCode = 0)
        /\ db.tables =
            {"users", "notebooks", "documents", "document_vectors", "chat_history",
             "notes", "sessions"}
        /\ Cardinality(db.indexes) = 7
        /\ SeedCount("users", SeedUser) = 1
        /\ SeedCount("notebooks", SeedNotebook) = 1
        /\ SeedCount("notes", SeedNote) = 1

\* A second provisioning run has succeeded on a database that held
\* application rows and whose seed user had been given another email.
C1_Witness ==
    /\ prevOK
    /\ script \in Provisioners
    /\ Done
    /\ error = "success"
    /\ db.rows["documents"] # {}
    /\ SeedUser \notin db.rows["users"]

ClaimedPurgeOrder ==
    <<"chat_history", "notes", "document_vectors", "documents", "notebooks", "sessions">>

PurgeTargets == Range(ClaimedPurgeOrder)

\* C2: a confirmed purge that completes without error on a database holding
\* the six target tables and users leaves the six empty and users as it was.
C2_PurgeEmptiesTargets ==
    (/\ script = "cleanup"
     /\ Done
     /\ error = "success"
     /\ inp.response \in {<<"y", "e", "s">>, <<"y">>}
     /\ PurgeTargets \cup {"users"} \subseteq db0.tables) =>
        /\ \A t \in PurgeTargets : db.rows[t] = {}
        /\ db.rows["users"] = db0.rows["users"]
        /\ Cardinality(db.rows["users"]) = Cardinality(db0.rows["users"])

C2_Witness ==
    /\ script = "cleanup"
    /\ Done
    /\ error = "success"
    /\ inp.response = <<"y", "e", "s">>
    /\ PurgeTargets \cup {"users"} \subseteq db0.tables
    /\ \A t \in PurgeTargets \cup {"users"} : db0.rows[t] # {}
    /\ \A t \in PurgeTargets : db.rows[t] = {}

\* C3: in a purge run nothing is sent to the database, and no connection is
\* asked for, unless the last answer read was 'yes' or 'y'; after 'no' or 'n'
\* the run has ended with exit code 0; after any other answer the run is at
\* the prompt again (or was interrupted there).
C3_ConfirmationFirst ==
    script = "cleanup" =>
        /\ inp.response \notin {<<"y", "e", "s">>, <<"y">>} =>
              /\ sqlLog = <<>>
              /\ connectCalls = 0
              /\ conn = "none"
              /\ db = db0
        /\ inp.response \in {<<"n", "o">>, <<"n">>} => (Done /\ exitCode = 0)
        /\ inp.response \notin {Unread, <<"y", "e", "s">>, <<"y">>, <<"n", "o">>, <<"n">>} =>
              (pc = "confirm" \/ (Done /\ exitCode = 0 /\ error = "cancelled"))

C3_Witness ==
    /\ script = "cleanup"
    /\ inp.response = <<"n", "o">>
    /\ Done
    /\ exitCode = 0
    /\ sqlLog = <<>>
    /\ db.rows["notebooks"] # {}

\* C4: a purge run issues its DELETEs in the fixed order, for tables that
\* exist only, never for users; a run that ends without error has issued one
\* for every target table that exists, and a run that fails after connecting
\* fails for a reason other than a target table being absent.
C4_DeletesExactlyExisting ==
    script = "cleanup" =>
        LET expected == SelectSeq(ClaimedPurgeOrder, LAMBDA t : t \in db0.tables) IN
        /\ IsPrefix(IssuedDeletes, expected)
        /\ (Done /\ error = "success") => IssuedDeletes = expected
        /\ "users" \notin Range(IssuedDeletes)
        /\ db.rows["users"] = db0.rows["users"]
        /\ (Done /\ exitCode = 1 /\ sqlLog # <<>>) =>
              \/ error = "OperationalError"
              \/ error = "ProgrammingError" /\ "users" \notin db0.tables

\* A purge has ended without error where some target tables exist and others
\* do not.
C4_Witness ==
    /\ script = "cleanup"
    /\ Done
    /\ error = "success"
    /\ db0.tables \cap PurgeTargets = {"notes", "documents", "sessions"}
    /\ IssuedDeletes = <<"notes", "documents", "sessions">>

\* C5: the tables a purge run has deleted from are a prefix of the fixed order
\* restricted to the existing tables; they are empty, every other table holds
\* the rows it held when the run started, and a run in which a DELETE raised
\* has ended with exit code 1 with that DELETE as its last statement.
C5_PartialPurgeIsPrefix ==
    script = "cleanup" =>
        LET expected == SelectSeq(ClaimedPurgeOrder, LAMBDA t : t \in db0.tables) IN
        /\ IsPrefix(CompletedDeletes, expected)
        /\ \A t \in Range(CompletedDeletes) : db.rows[t] = {}
        /\ \A t \in Tables \ Range(CompletedDeletes) : db.rows[t] = db0.rows[t]
        /\ \A i \in 1..Len(sqlLog) :
              (sqlLog[i][1] = "DELETE FROM" /\ sqlLog[i][2] \notin Range(CompletedDeletes)) =>
                  (i = Len(sqlLog) /\ Done /\ exitCode = 1)

\* The third DELETE of a purge raised: two tables are empty, the failing one
\* and a later one still hold their rows.
C5_Witness ==
    /\ script = "cleanup"
    /\ Done
    /\ exitCode = 1
    /\ IssuedDeletes = <<"chat_history", "notes", "document_vectors">>
    /\ CompletedDeletes = <<"chat_history", "notes">>
    /\ db0.rows["chat_history"] # {}
    /\ db.rows["chat_history"] = {}
    /\ db.rows["document_vectors"] # {}
    /\ db.rows["notebooks"] # {}

WellFormedUrl(s) ==
    /\ Len(s) > Len(HttpsPrefix) + Len(SupabaseSuffix)
    /\ SubSeq(s, 1, Len(HttpsPrefix)) = HttpsPrefix
    /\ SubSeq(s, Len(s) - Len(SupabaseSuffix) + 1, Len(s)) = SupabaseSuffix
    /\ \A i \in (Len(HttpsPrefix) + 1)..(Len(s) - Len(SupabaseSuffix)) : s[i] # "."

\* C7: the REST provisioning script makes an HTTP request only for a URL of
\* the form https://<ref>.supabase.co and a non-empty key; with any other URL
\* the run, unless cancelled, exits with code 1 without a request.
C7_NoRequestForMalformedUrl ==
    script = "setup_rest" =>
        /\ httpRequests > 0 =>
              /\ WellFormedUrl(inp.supabase_url)
              /\ inp.supabase_service_key \notin {Unread, <<>>}
        /\ (Done /\ error # "cancelled" /\ ~ WellFormedUrl(inp.supabase_url)) =>
              (exitCode = 1 /\ httpRequests = 0)

\* C8: a non-empty connection string is the connection target as entered and
\* no component is asked for; without one the target is the dict of host,
\* port, database, user and password with the defaults filled in; a blank
\* password ends the run with code 1 before any connection attempt; with a
\* password, the run attempts a connection to the resolved target.
C8_ConnectionResolution ==
    script \in {"setup_sql", "cleanup"} =>
        /\ inp.database_url \notin {Unread, <<>>} =>
              /\ conn_params = [kind |-> "dsn", dsn |-> inp.database_url]
              /\ inp.host = Unread /\ inp.port = Unread /\ inp.database = Unread
              /\ inp.user = Unread /\ inp.password = Unread
              /\ connectCalls > 0 => connTarget = conn_params
        /\ inp.password = <<>> => (Done /\ exitCode = 1 /\ connectCalls = 0)
        /\ inp.password \notin {Unread, <<>>} =>
              /\ inp.database_url = <<>>
              /\ conn_params =
                    [kind |-> "dict", host |-> inp.host, port |-> inp.port,
                     database |-> inp.database, user |-> inp.user,
                     password |-> inp.password]
              /\ inp.port # <<>> /\ inp.database # <<>> /\ inp.user # <<>>
              /\ Done => connTarget = conn_params

\* C9: a run of the purge script or of the direct-SQL provisioning script
\* opens at most one connection, and no run ends with its connection open.
C9_ConnectionReleased ==
    script \in {"setup_sql", "cleanup"} =>
        /\ connectCalls <= 1
        /\ Done => conn # "open"

ClaimedReferrers(t) ==
    CASE t = "notebooks" -> {"chat_history", "notes", "documents"}
      [] t = "documents" -> {"document_vectors"}
      [] OTHER -> {}

\* C10: when a purge run is about to execute DELETE on a table, every table
\* holding a foreign key to it is empty or absent, so the DELETE removes rows
\* of that table only: no row of another table goes with it.
C10_LeafToRoot ==
    (script = "cleanup" /\ pc = "delete" /\ InExisting(CLEANUP_QUERIES[idx])) =>
        LET t == CLEANUP_QUERIES[idx] IN
        /\ ChildrenOf(t) \subseteq ClaimedReferrers(t)
        /\ \A c \in ClaimedReferrers(t) : c \notin db.tables \/ db.rows[c] = {}
        /\ \A c \in Tables \ {t} : DeleteFrom(db, t).rows[c] = db.rows[c]

\* The purge is about to delete from notebooks, which holds rows, and the
\* tables referencing it held rows when the run started.
C10_Witness ==
    /\ script = "cleanup"
    /\ pc = "delete"
    /\ CLEANUP_QUERIES[idx] = "notebooks"
    /\ "notebooks" \in Range(existing_tables)
    /\ db.rows["notebooks"] # {}
    /\ \A c \in {"chat_history", "notes", "documents"} :
          c \in db.fkeys /\ db0.rows[c] # {}

\* The rows of table c each reference a row that table p holds.
References(c, p) ==
    \A r \in db.rows[c] : \E q \in db.rows[p] : q.id = r.ref

\* C11: from an empty database, after any sequence of provisioning and purge
\* runs (cancelled or aborted ones included) and at every point within them,
\* every notebooks row references a users row, every documents, chat_history
\* and notes row a notebooks row, every document_vectors row a documents row;
\* every table that exists carries the foreign key that enforces it, and rows
\* are held by existing tables only.
C11_ReferentialIntegrity ==
    /\ References("notebooks", "users")
    /\ References("documents", "notebooks")
    /\ References("chat_history", "notebooks")
    /\ References("notes", "notebooks")
    /\ References("document_vectors", "documents")
    /\ db.fkeys =
        db.tables \cap {"notebooks", "documents", "chat_history", "notes", "document_vectors"}
    /\ \A t \in Tables \ db.tables : db.rows[t] = {}

\* A purge of a provisioned database was aborted by an error at its third
\* DELETE: the seed note is gone, the seed notebook and its user remain.
C11_Witness ==
    /\ script = "cleanup"
    /\ Done
    /\ exitCode = 1
    /\ CompletedDeletes = <<"chat_history", "notes">>
    /\ SeedNote \in db0.rows["notes"]
    /\ db.rows["notes"] = {}
    /\ SeedNotebook \in db.rows["notebooks"]
    /\ SeedUser \in db.rows["users"]

====
